---- MODULE Spec2Model ----
(***************************************************************************)
(* A model of droughtmapper.py: the DroughtMapper object, its in-memory    *)
(* memo of the latest date, the on-disk cache under <cache>/zip, and the   *)
(* remote endpoints it talks to.  One action per public method; the        *)
(* responses of the remote and the faults of the filesystem are inputs.    *)
(***************************************************************************)
EXTENDS Integers, Sequences, FiniteSets, TLC

VARIABLES dm, files, dirs, truncated, outputs, last

vars == <<dm, files, dirs, truncated, outputs, last>>

(***************************************************************************)
(* Bounds                                                                  *)
(***************************************************************************)
\* largest number of child elements of the metadata document's root
MaxChildren == 2

(***************************************************************************)
(* Optional values: None is the empty set, a present value a singleton.    *)
(***************************************************************************)
None == {}

Some(x) == {x}

The(o) == CHOOSE x \in o : TRUE

(***************************************************************************)
(* Text: a string is handled as a sequence of one-character strings where  *)
(* the code looks inside it (strptime), and joined where it is a name.     *)
(***************************************************************************)
DigitVal == [c \in {"0", "1", "2", "3", "4", "5", "6", "7", "8", "9"} |->
               CASE c = "0" -> 0 [] c = "1" -> 1 [] c = "2" -> 2 [] c = "3" -> 3
                 [] c = "4" -> 4 [] c = "5" -> 5 [] c = "6" -> 6 [] c = "7" -> 7
                 [] c = "8" -> 8 [] c = "9" -> 9]

DigitChar == <<"0", "1", "2", "3", "4", "5", "6", "7", "8", "9">>

IsDigit(c) == c \in DOMAIN DigitVal

RECURSIVE Join(_)
Join(cs) == IF cs = <<>> THEN "" ELSE Head(cs) \o Join(Tail(cs))

\* decimal digits of n, no padding
RECURSIVE Decimal(_)
Decimal(n) == IF n < 10 THEN <<DigitChar[n + 1]>>
              ELSE Append(Decimal(n \div 10), DigitChar[(n % 10) + 1])

\* two decimal digits, zero-padded (%m, %d)
Pad2(n) == <<DigitChar[(n \div 10) + 1], DigitChar[(n % 10) + 1]>>

(***************************************************************************)
(* datetime: a date is [year, month, day]; the time of day is midnight in  *)
(* every value the program builds.                                         *)
(***************************************************************************)
IsLeap(y) == (y % 4 = 0) /\ ((y % 100 # 0) \/ (y % 400 = 0))

DaysInMonth(y, m) == IF m = 2 THEN (IF IsLeap(y) THEN 29 ELSE 28)
                     ELSE IF m \in {4, 6, 9, 11} THEN 30 ELSE 31

\* date.strftime('%Y%m%d'), as characters (years of four digits)
StrftimeOmitDay(date) == Decimal(date.year) \o Pad2(date.month)

Strftime(date) == Decimal(date.year) \o Pad2(date.month) \o Pad2(date.day)

\* the lengths the regex alternatives of %m can consume at position p of s,
\* in the order the regex tries them: 1[0-2] | 0[1-9] | [1-9]
MonthAlts(s, p) ==
    (IF p + 1 <= Len(s)
        /\ ((s[p] = "1" /\ s[p + 1] \in {"0", "1", "2"})
            \/ (s[p] = "0" /\ IsDigit(s[p + 1]) /\ s[p + 1] # "0"))
     THEN <<2>> ELSE <<>>)
    \o (IF p <= Len(s) /\ IsDigit(s[p]) /\ s[p] # "0" THEN <<1>> ELSE <<>>)

\* the same for %d: 3[01] | [12]\d | 0[1-9] | [1-9] | ' '[1-9]
DayAlts(s, p) ==
    (IF p + 1 <= Len(s)
        /\ ((s[p] = "3" /\ s[p + 1] \in {"0", "1"})
            \/ (s[p] \in {"1", "2"} /\ IsDigit(s[p + 1]))
            \/ (s[p] = "0" /\ IsDigit(s[p + 1]) /\ s[p + 1] # "0"))
     THEN <<2>> ELSE <<>>)
    \o (IF p <= Len(s) /\ IsDigit(s[p]) /\ s[p] # "0" THEN <<1>> ELSE <<>>)
    \o (IF p + 1 <= Len(s) /\ s[p] = " " /\ IsDigit(s[p + 1]) /\ s[p + 1] # "0"
        THEN <<2>> ELSE <<>>)

\* number written by the digits (and blanks) s[from..to]
RECURSIVE Number(_, _, _)
Number(s, from, to) ==
    IF to < from THEN 0
    ELSE 10 * Number(s, from, to - 1) + (IF IsDigit(s[to]) THEN DigitVal[s[to]] ELSE 0)

\* datetime.datetime.strptime(s, '%Y%m%d'): Some(date), or None where the
\* code raises ValueError.  The regex matches a prefix, backtracking over
\* the alternatives of %m; text left over after the match is an error.
Strptime(s) ==
    IF ~(Len(s) >= 4 /\ \A i \in 1..4 : IsDigit(s[i])) THEN None
    ELSE LET ms == MonthAlts(s, 5)
             ok == {i \in 1..Len(ms) : DayAlts(s, 5 + ms[i]) # <<>>}
         IN IF ok = {} THEN None
            ELSE LET i == CHOOSE j \in ok : \A k \in ok : j <= k
                     ml == ms[i]
                     dl == Head(DayAlts(s, 5 + ml))
                     y == Number(s, 1, 4)
                     m == Number(s, 5, 4 + ml)
                     d == Number(s, 5 + ml, 4 + ml + dl)
                 IN IF 4 + ml + dl # Len(s) THEN None
                    ELSE IF y < 1 \/ d > DaysInMonth(y, m) THEN None
                    ELSE Some([year |-> y, month |-> m, day |-> d])

(***************************************************************************)
(* Inputs                                                                  *)
(***************************************************************************)
\* the dates callers ask for
Dates == {[year |-> 2014, month |-> 6, day |-> 24],
          [year |-> 2014, month |-> 7, day |-> 1]}

\* values of a week element's date attribute, as the endpoint formats them
DateAttrs == {<<"2", "0", "1", "4", "0", "6", "2", "4">>,
              <<"2", "0", "1", "4", "0", "7", "0", "1">>}

\* an element: its tag and its attributes (a function from names to text)
Elements == {[tag |-> "other", attrib |-> <<>>]}
            \cup {[tag |-> "week", attrib |-> [k \in {"date"} |-> a]] : a \in DateAttrs}

SeqsUpTo(S, n) == UNION {[1..k -> S] : k \in 0..n}

\* r.text of the metadata endpoint: text that is not XML, or a root element
\* with its children in document order
Documents == {[wellformed |-> FALSE, children |-> <<>>]}
             \cup {[wellformed |-> TRUE, children |-> c] : c \in SeqsUpTo(Elements, MaxChildren)}

StatusCodes == {200, 404}

\* the responses of the metadata endpoint
MetaResponses == {[status |-> st, doc |-> doc] : st \in StatusCodes, doc \in Documents}

\* r.content of the archive endpoint, as bytes: the empty body and two
\* bodies that differ in content
Bodies == {<<>>, <<0>>, <<1>>}

\* the responses of the archive endpoint: r.status_code and r.content
ArchiveResponses == {[status |-> st, body |-> b] : st \in StatusCodes, b \in Bodies}

\* what the disk does to the write of a body: it takes all of it, or the
\* write fails after k bytes
DiskEvents(body) == {[fault |-> "none", k |-> Len(body)]}
                    \cup {[fault |-> "write", k |-> j] : j \in 0..(Len(body) - 1)}

Outfiles == {"drought.png"}

(***************************************************************************)
(* The object and the filesystem                                           *)
(***************************************************************************)
\* os.path.realpath('.cache') of the default constructor argument
CachePath == "/work/.cache"

MetaUrl == "http://droughtmonitor.unl.edu/tabular/total.xml"

ShapefileBase == "http://droughtmonitor.unl.edu/data/shapefiles_m/"

\* getattr(obj, name, None)
Getattr(obj, name) == IF name \in DOMAIN obj THEN Some(obj[name]) ELSE None

\* bool(x) of an optional datetime: None is false, every datetime is true
Truthy(o) == o # None

\* the condition of the early return of get_latest_date
UseMemoAlways(obj, ignore_cache) == Truthy(Getattr(obj, "_latest_date"))

UseMemo(obj, ignore_cache) == Truthy(Getattr(obj, "_latest_date")) /\ ~ignore_cache

\* Element.find(tag): the first child with that tag, or None
FindLast(children, tag) ==
    LET hits == {i \in 1..Len(children) : children[i].tag = tag}
    IN IF hits = {} THEN None
       ELSE Some(children[CHOOSE i \in hits : \A j \in hits : j <= i])

Find(children, tag) ==
    LET hits == {i \in 1..Len(children) : children[i].tag = tag}
    IN IF hits = {} THEN None
       ELSE Some(children[CHOOSE i \in hits : \A j \in hits : i <= j])

\* Element.get(key): the attribute's value, or None
Get(element, key) == IF key \in DOMAIN element.attrib THEN Some(element.attrib[key]) ELSE None

\* Response.raise_for_status() raises
RaiseForStatusNever(status) == FALSE

RaiseForStatus(status) == status >= 400 /\ status < 600

\* the basename of the archive of a date
FilenameOmitDay(date) == "USDM_" \o Join(StrftimeOmitDay(date)) \o "_M.zip"

Filename(date) == "USDM_" \o Join(Strftime(date)) \o "_M.zip"

ShapefileUrl(date) == ShapefileBase \o Filename(date)

Dirname(obj) == obj["cache"] \o "/zip"

ShapefilePath(obj, date) == Dirname(obj) \o "/" \o Filename(date)

\* os.path.exists(path) and not ignore_cache
CacheHitNever(fs, path, ignore_cache) == FALSE

CacheHitNonEmpty(fs, path, ignore_cache) ==
    path \in DOMAIN fs /\ ~ignore_cache /\ fs[path] # <<>>

CacheHit(fs, path, ignore_cache) == path \in DOMAIN fs /\ ~ignore_cache

\* the files after open(path, 'wb') and a write of content
WriteFileOnly(fs, path, content) == [p \in {path} |-> content]

WriteFile(fs, path, content) ==
    [p \in (DOMAIN fs) \cup {path} |-> IF p = path THEN content ELSE fs[p]]

\* os.makedirs(dirname): the directory and its parents
Makedirs(ds, obj) == ds \cup {obj["cache"], Dirname(obj)}

(***************************************************************************)
(* The methods, as functions of the state and the inputs.  Each gives the  *)
(* state it leaves, how it ends (outcome: "return" or the exception        *)
(* raised), what it returns, the URLs it requested and the calls it made.  *)
(***************************************************************************)
Call(fn, args) == [fn |-> fn, args |-> args]

get_latest_date(obj, ignore_cache, resp) ==
    IF UseMemo(obj, ignore_cache)
    THEN [obj |-> obj, outcome |-> "return", result |-> Some(obj["_latest_date"]),
          requests |-> <<>>]
    ELSE LET fetched == [obj |-> obj, outcome |-> "return", result |-> None,
                         requests |-> <<MetaUrl>>]
             week == Find(resp.doc.children, "week")
             date == Get(The(week), "date")
             parsed == Strptime(The(date))
         IN IF ~resp.doc.wellformed THEN [fetched EXCEPT !.outcome = "ParseError"]
            ELSE IF week = None THEN [fetched EXCEPT !.outcome = "AttributeError"]
            ELSE IF date = None THEN [fetched EXCEPT !.outcome = "TypeError"]
            ELSE IF parsed = None THEN [fetched EXCEPT !.outcome = "ValueError"]
            ELSE [obj |-> [k \in (DOMAIN obj) \cup {"_latest_date"} |->
                              IF k = "_latest_date" THEN The(parsed) ELSE obj[k]],
                  outcome |-> "return", result |-> parsed, requests |-> <<MetaUrl>>]

\* fs, ds, tr: the files, the directories and the set of files a failed write
\* cut short; disk: what the disk does to the write
get_shapefile(obj, fs, ds, tr, date, ignore_cache, resp, disk) ==
    LET same == [files |-> fs, dirs |-> ds, truncated |-> tr, outcome |-> "return",
                 result |-> None, requests |-> <<>>]
    IN IF date = None
       THEN [same EXCEPT !.outcome = "AttributeError"]
       ELSE
       LET url == ShapefileUrl(The(date))
           path == ShapefilePath(obj, The(date))
           made == IF Dirname(obj) \in ds THEN ds ELSE Makedirs(ds, obj)
       IN IF CacheHit(fs, path, ignore_cache)
          THEN [same EXCEPT !.result = Some(path)]
          ELSE IF RaiseForStatus(resp.status)
          THEN [same EXCEPT !.outcome = "HTTPError", !.requests = <<url>>]
          ELSE IF disk.fault = "write"
          THEN [files |-> WriteFile(fs, path, SubSeq(resp.body, 1, disk.k)), dirs |-> made,
                truncated |-> tr \cup {path},
                outcome |-> "IOError", result |-> None, requests |-> <<url>>]
          ELSE [files |-> WriteFile(fs, path, resp.body), dirs |-> made,
                truncated |-> tr \ {path},
                outcome |-> "return", result |-> Some(path), requests |-> <<url>>]

\* get_us and project_shapefile have no body: they return None
get_us == [outcome |-> "return", result |-> None]

project_shapefile(shapefile) == [outcome |-> "return", result |-> None]

\* raster calls get_us and returns None; it writes nothing
raster(outs, shapefile, outfile) ==
    [outputs |-> outs, outcome |-> get_us.outcome, result |-> None,
     calls |-> <<Call("get_us", <<>>)>>]

\* render passes its date to get_shapefile as it is, then calls raster
render(obj, fs, ds, tr, outs, date, outfile, resp, disk) ==
    LET g == get_shapefile(obj, fs, ds, tr, date, FALSE, resp, disk)
        r == raster(outs, g.result, outfile)
        first == <<Call("get_shapefile", <<date, FALSE>>)>>
    IN IF g.outcome # "return"
       THEN [files |-> g.files, dirs |-> g.dirs, truncated |-> g.truncated,
             outputs |-> outs, outcome |-> g.outcome, result |-> None,
             requests |-> g.requests, calls |-> first]
       ELSE [files |-> g.files, dirs |-> g.dirs, truncated |-> g.truncated,
             outputs |-> r.outputs, outcome |-> r.outcome, result |-> None,
             requests |-> g.requests,
             calls |-> first \o <<Call("raster", <<g.result, Some(outfile)>>)>> \o r.calls]

(***************************************************************************)
(* State machine                                                           *)
(***************************************************************************)
\* the record of the latest call: its arguments, the response and the disk
\* event it consumed (None where it consumed none) and how it ended
NoCall == [op |-> "none", date |-> None, ignore_cache |-> FALSE, outfile |-> None,
           resp |-> None, disk |-> None,
           outcome |-> "return", result |-> None, requests |-> <<>>, calls |-> <<>>]

\* a response that is never read, for the calls that request nothing
Unread == [status |-> 200, doc |-> [wellformed |-> FALSE, children |-> <<>>], body |-> <<>>]

Undisturbed == [fault |-> "none", k |-> 0]

Init ==
    /\ dm = [k \in {"cache"} |-> CachePath]
    /\ files = <<>>
    /\ dirs = {}
    /\ truncated = {}
    /\ outputs = {}
    /\ last = NoCall

GetLatestDate ==
    \E ignore_cache \in BOOLEAN :
        LET fetches == get_latest_date(dm, ignore_cache, Unread).requests # <<>>
        IN \E resp \in (IF fetches THEN MetaResponses ELSE {Unread}) :
            LET c == get_latest_date(dm, ignore_cache, resp)
            IN /\ dm' = c.obj
               /\ last' = [NoCall EXCEPT !.op = "get_latest_date",
                              !.ignore_cache = ignore_cache,
                              !.resp = IF fetches THEN Some(resp) ELSE None,
                              !.outcome = c.outcome, !.result = c.result,
                              !.requests = c.requests]
               /\ UNCHANGED <<files, dirs, truncated, outputs>>

GetShapefile ==
    \E date \in {Some(d) : d \in Dates} \cup {None}, ignore_cache \in BOOLEAN :
        LET fetches == get_shapefile(dm, files, dirs, truncated, date, ignore_cache,
                                     Unread, Undisturbed).requests # <<>>
        IN \E resp \in (IF fetches THEN ArchiveResponses ELSE {Unread}) :
            LET writes == fetches /\ ~RaiseForStatus(resp.status)
            IN \E disk \in (IF writes THEN DiskEvents(resp.body) ELSE {Undisturbed}) :
                LET c == get_shapefile(dm, files, dirs, truncated, date, ignore_cache,
                                       resp, disk)
                IN /\ files' = c.files
                   /\ dirs' = c.dirs
                   /\ truncated' = c.truncated
                   /\ last' = [NoCall EXCEPT !.op = "get_shapefile", !.date = date,
                                  !.ignore_cache = ignore_cache,
                                  !.resp = IF fetches THEN Some(resp) ELSE None,
                                  !.disk = IF writes THEN Some(disk) ELSE None,
                                  !.outcome = c.outcome, !.result = c.result,
                                  !.requests = c.requests]
                   /\ UNCHANGED <<dm, outputs>>

GetUs ==
    /\ last' = [NoCall EXCEPT !.op = "get_us", !.outcome = get_us.outcome,
                   !.result = get_us.result]
    /\ UNCHANGED <<dm, files, dirs, truncated, outputs>>

ProjectShapefile ==
    \E shapefile \in DOMAIN files :
        LET c == project_shapefile(shapefile)
        IN /\ last' = [NoCall EXCEPT !.op = "project_shapefile", !.outcome = c.outcome,
                          !.result = c.result]
           /\ UNCHANGED <<dm, files, dirs, truncated, outputs>>

Raster ==
    \E shapefile \in DOMAIN files, outfile \in Outfiles :
        LET c == raster(outputs, Some(shapefile), outfile)
        IN /\ outputs' = c.outputs
           /\ last' = [NoCall EXCEPT !.op = "raster", !.outfile = Some(outfile),
                          !.outcome = c.outcome, !.result = c.result, !.calls = c.calls]
           /\ UNCHANGED <<dm, files, dirs, truncated>>

Render ==
    \E date \in {Some(d) : d \in Dates} \cup {None}, outfile \in Outfiles :
        LET fetches == render(dm, files, dirs, truncated, outputs, date, outfile,
                              Unread, Undisturbed).requests # <<>>
        IN \E resp \in (IF fetches THEN ArchiveResponses ELSE {Unread}) :
            LET writes == fetches /\ ~RaiseForStatus(resp.status)
            IN \E disk \in (IF writes THEN DiskEvents(resp.body) ELSE {Undisturbed}) :
                LET c == render(dm, files, dirs, truncated, outputs, date, outfile,
                                resp, disk)
                IN /\ files' = c.files
                   /\ dirs' = c.dirs
                   /\ truncated' = c.truncated
                   /\ outputs' = c.outputs
                   /\ last' = [NoCall EXCEPT !.op = "render", !.date = date,
                                  !.outfile = Some(outfile),
                                  !.resp = IF fetches THEN Some(resp) ELSE None,
                                  !.disk = IF writes THEN Some(disk) ELSE None,
                                  !.outcome = c.outcome, !.result = c.result,
                                  !.requests = c.requests, !.calls = c.calls]
                   /\ UNCHANGED dm

Next ==
    \/ GetLatestDate
    \/ GetShapefile
    \/ GetUs
    \/ ProjectShapefile
    \/ Raster
    \/ Render

Spec == Init /\ [][Next]_vars

(***************************************************************************)
(* Properties                                                              *)
(***************************************************************************)
\* what the properties expect, written out independently of the methods
ExpectedName(date) ==
    CASE date = [year |-> 2014, month |-> 6, day |-> 24] -> "USDM_20140624_M.zip"
      [] date = [year |-> 2014, month |-> 7, day |-> 1] -> "USDM_20140701_M.zip"

ExpectedUrl(date) ==
    "http://droughtmonitor.unl.edu/data/shapefiles_m/" \o ExpectedName(date)

ExpectedPath(date) == "/work/.cache/zip/" \o ExpectedName(date)

ExpectedDate(attr) ==
    CASE attr = <<"2", "0", "1", "4", "0", "6", "2", "4">> -> [year |-> 2014, month |-> 6, day |-> 24]
      [] attr = <<"2", "0", "1", "4", "0", "7", "0", "1">> -> [year |-> 2014, month |-> 7, day |-> 1]

WeekIndexes(children) == {i \in 1..Len(children) : children[i].tag = "week"}

FirstWeek(children) ==
    children[CHOOSE i \in WeekIndexes(children) : \A j \in WeekIndexes(children) : i <= j]

Success(status) == status >= 200 /\ status < 300

CallsOf(fn) == {i \in 1..Len(last.calls) : last.calls[i].fn = fn}

\* C1: a render call with no date calls get_latest_date first, and no render
\* call hands get_shapefile an unspecified date.
C1_RenderResolvesDate ==
    last.op = "render" =>
        /\ \A i \in CallsOf("get_shapefile") : last.calls[i].args[1] # None
        /\ last.date = None =>
              /\ CallsOf("get_latest_date") # {}
              /\ \A i \in CallsOf("get_shapefile") :
                    \E j \in CallsOf("get_latest_date") : j < i

\* C2: a render call that returns has called raster exactly once, after
\* get_shapefile, and the output file is written at the outfile path.
C2_RenderWritesOutfile ==
    (last.op = "render" /\ last.outcome = "return") =>
        /\ Cardinality(CallsOf("raster")) = 1
        /\ \A i \in CallsOf("raster") : \E j \in CallsOf("get_shapefile") : j < i
        /\ outputs = last.outfile

\* C3: once the latest date is memoized, a get_latest_date call with
\* ignore_cache=false returns the memoized value, requests nothing and leaves
\* the memo alone; a call with ignore_cache=true always requests the metadata
\* document, and the date it returns replaces the memo.
C3_MemoizedLatestDate ==
    [][last'.op = "get_latest_date" =>
          /\ (~last'.ignore_cache /\ "_latest_date" \in DOMAIN dm) =>
                /\ last'.outcome = "return"
                /\ last'.result = {dm["_latest_date"]}
                /\ last'.requests = <<>>
                /\ dm' = dm
          /\ last'.ignore_cache =>
                /\ last'.requests = <<"http://droughtmonitor.unl.edu/tabular/total.xml">>
                /\ last'.resp # None
                /\ last'.outcome = "return" =>
                      /\ "_latest_date" \in DOMAIN dm'
                      /\ last'.result = {dm'["_latest_date"]}
                      /\ dm'["_latest_date"] =
                            ExpectedDate(FirstWeek(The(last'.resp).doc.children).attrib["date"])
                /\ last'.outcome # "return" => dm' = dm]_vars

\* a call was answered from the memo
C3_Witness ==
    /\ last.op = "get_latest_date"
    /\ ~last.ignore_cache
    /\ last.requests = <<>>
    /\ last.outcome = "return"
    /\ last.result = {dm["_latest_date"]}

\* C4: a get_latest_date call whose request gets a non-success status, text
\* that is not XML or a document without a week element fails: it returns no
\* date and leaves the memo as it was.
C4_FailsOnBadResponse ==
    [][(/\ last'.op = "get_latest_date"
        /\ last'.resp # None
        /\ \/ ~Success(The(last'.resp).status)
           \/ ~The(last'.resp).doc.wellformed
           \/ WeekIndexes(The(last'.resp).doc.children) = {})
       => (last'.outcome # "return" /\ last'.result = None /\ dm' = dm)]_vars

\* C5: get_shapefile(date, ignore_cache=false) with a file at the date's cache
\* path returns that path, requests nothing and writes nothing, whatever the
\* file holds.
C5_CacheHit ==
    [][(/\ last'.op = "get_shapefile"
        /\ last'.date # None
        /\ ~last'.ignore_cache
        /\ \E d \in last'.date : ExpectedPath(d) \in DOMAIN files)
       => (/\ last'.outcome = "return"
           /\ last'.result = {ExpectedPath(The(last'.date))}
           /\ last'.requests = <<>>
           /\ last'.resp = None
           /\ files' = files
           /\ dirs' = dirs)]_vars

\* a hit on a file that holds nothing
C5_Witness ==
    /\ last.op = "get_shapefile"
    /\ ~last.ignore_cache
    /\ last.outcome = "return"
    /\ last.requests = <<>>
    /\ \E p \in last.result : p \in DOMAIN files /\ files[p] = <<>>

\* C6: get_shapefile for a date without a cache file, answered with success
\* and written without a disk fault, requests exactly the URL
\* .../USDM_<YYYYMMDD>_M.zip, leaves <cache>/zip/USDM_<YYYYMMDD>_M.zip holding
\* the response body and returns that path; distinct dates have distinct paths.
C6_FetchAndStore ==
    [][(/\ last'.op = "get_shapefile"
        /\ last'.date # None
        /\ \E d \in last'.date : ExpectedPath(d) \notin DOMAIN files
        /\ \E r \in last'.resp : Success(r.status)
        /\ \E e \in last'.disk : e.fault = "none")
       => (LET d == The(last'.date)
           IN /\ last'.requests = <<ExpectedUrl(d)>>
              /\ last'.outcome = "return"
              /\ last'.result = {ExpectedPath(d)}
              /\ ExpectedPath(d) \in DOMAIN files'
              /\ files'[ExpectedPath(d)] = The(last'.resp).body
              /\ \A p \in DOMAIN files : p \in DOMAIN files' /\ files'[p] = files[p]
              /\ \A e \in Dates : e # d => ShapefilePath(dm, e) # ShapefilePath(dm, d))]_vars

\* a fetched body of one byte is in the cache under the date's name
C6_Witness ==
    /\ last.op = "get_shapefile"
    /\ last.outcome = "return"
    /\ last.requests # <<>>
    /\ \E d \in last.date : /\ ExpectedPath(d) \in DOMAIN files
                            /\ files[ExpectedPath(d)] = The(last.resp).body
                            /\ Len(files[ExpectedPath(d)]) = 1

\* C7: a get_shapefile call whose request gets a non-success status fails
\* and leaves the cache, its zip directory included, as it was.
C7_FailedFetchLeavesCache ==
    [][(/\ last'.op = "get_shapefile"
        /\ \E r \in last'.resp : ~Success(r.status))
       => (/\ last'.outcome = "HTTPError"
           /\ last'.result = None
           /\ files' = files
           /\ dirs' = dirs)]_vars

\* a failed fetch into an empty cache: no file, no directory
C7_Witness ==
    /\ last.op = "get_shapefile"
    /\ last.outcome = "HTTPError"
    /\ \E r \in last.resp : r.status = 404
    /\ files = <<>>
    /\ dirs = {}

\* C8: a get_latest_date call that fetches a document with a week element
\* returns the date of the first week element's date attribute, whichever
\* dates the later week elements carry.
C8_FirstWeek ==
    (/\ last.op = "get_latest_date"
     /\ \E r \in last.resp : r.doc.wellformed /\ WeekIndexes(r.doc.children) # {})
    => (/\ last.outcome = "return"
        /\ last.result = {ExpectedDate(FirstWeek(The(last.resp).doc.children).attrib["date"])})

\* the first week is not the first child, and a later week has another date
C8_Witness ==
    /\ last.op = "get_latest_date"
    /\ last.outcome = "return"
    /\ \E r \in last.resp :
          /\ Len(r.doc.children) = 2
          /\ r.doc.children[1].tag = "week"
          /\ r.doc.children[2].tag = "week"
          /\ r.doc.children[1] # r.doc.children[2]
          /\ last.result = {ExpectedDate(r.doc.children[1].attrib["date"])}

\* C9: a cache file that exists keeps existing, and its content changes only
\* in a get_shapefile call for its own date with ignore_cache=true whose
\* request succeeded.
C9_NoEviction ==
    [][\A p \in DOMAIN files :
          /\ p \in DOMAIN files'
          /\ files'[p] # files[p] =>
                /\ last'.op = "get_shapefile"
                /\ last'.ignore_cache
                /\ \E d \in last'.date : ExpectedPath(d) = p
                /\ \E r \in last'.resp : Success(r.status)]_vars

\* a forced re-fetch failed while both dates were cached with content
C9_Witness ==
    /\ last.op = "get_shapefile"
    /\ last.ignore_cache
    /\ last.outcome = "HTTPError"
    /\ Cardinality(DOMAIN files) = 2
    /\ \A p \in DOMAIN files : files[p] # <<>>

\* C10: a get_shapefile call whose write fails leaves a file at the cache path
\* that holds only a proper prefix of the response body, and a later
\* get_shapefile call for that date with ignore_cache=false returns that path
\* without a request, leaving the cut-short file as it is.
C10_TruncatedFileServed ==
    [][last'.op = "get_shapefile" =>
          /\ (\E e \in last'.disk : e.fault = "write") =>
                LET p == ExpectedPath(The(last'.date))
                    body == The(last'.resp).body
                IN /\ last'.outcome # "return"
                   /\ p \in DOMAIN files'
                   /\ Len(files'[p]) < Len(body)
                   /\ files'[p] = SubSeq(body, 1, Len(files'[p]))
                   /\ p \in truncated'
          /\ (~last'.ignore_cache /\ \E d \in last'.date : ExpectedPath(d) \in truncated) =>
                /\ last'.outcome = "return"
                /\ last'.result = {ExpectedPath(The(last'.date))}
                /\ last'.requests = <<>>
                /\ files' = files
                /\ truncated' = truncated]_vars

\* a cut-short file was served as a hit
C10_Witness ==
    /\ last.op = "get_shapefile"
    /\ ~last.ignore_cache
    /\ last.outcome = "return"
    /\ last.requests = <<>>
    /\ \E p \in last.result : p \in truncated /\ p \in DOMAIN files

====
